---- MODULE Spec2Model ----
(***************************************************************************)
(* Model of the minimalist-cv application: the resume record, its          *)
(* projection to the GraphQL wire record, the GraphQL route, the command   *)
(* palette and the error boundary around the page.                         *)
(***************************************************************************)
EXTENDS Integers, Sequences, FiniteSets, TLC

(***************************************************************************)
(* Bounds of the model.                                                    *)
(***************************************************************************)
\* longest work list of a resume record
MaxWork == 2
\* longest education / skills / projects / social list of a resume record
MaxLen == 2
\* cap on the counters of side effects (print, scroll, reload, resolver calls)
MaxCalls == 2

(***************************************************************************)
(* JavaScript values.  A value carries its runtime type, so that a string, *)
(* null, undefined and a React element are told apart as `typeof` and the  *)
(* GraphQL serialiser tell them apart.  An object is a record of its own   *)
(* properties.                                                             *)
(***************************************************************************)
Str(s) == [kind |-> "string", text |-> s]
Bool(b) == [kind |-> "boolean", val |-> b]
Null == [kind |-> "null"]
Undefined == [kind |-> "undefined"]
Arr(xs) == [kind |-> "array", items |-> xs]
\* a React element (JSX fragment) with its children: strings and elements
Element(cs) == [kind |-> "element", children |-> cs]
\* a TypeError thrown by an expression, in place of its value
TypeError(message) == [kind |-> "throw", name |-> "TypeError", message |-> message]

IsObject(v) == "kind" \notin DOMAIN v
IsThrown(v) == ~IsObject(v) /\ v.kind = "throw"
IsString(v) == ~IsObject(v) /\ v.kind = "string"
IsArray(v) == ~IsObject(v) /\ v.kind = "array"
\* obj.name: the value of the property, undefined when the object has none
Prop(obj, name) == IF name \in DOMAIN obj THEN obj[name] ELSE Undefined
\* JavaScript truthiness of the values the record holds
Truthy(v) ==
  CASE IsObject(v) -> TRUE
    [] v.kind = "string" -> v.text # ""
    [] v.kind = "boolean" -> v.val
    [] v.kind \in {"null", "undefined"} -> FALSE
    [] OTHER -> TRUE

Min(a, b) == IF a < b THEN a ELSE b
Prefix(xs, n) == SubSeq(xs, 1, Min(n, Len(xs)))

(***************************************************************************)
(* The resume data store: RESUME_DATA as the data files write it.  The     *)
(* repository holds three data files: resume-data, the generic data and    *)
(* the data of the guide.  JSX is an Element with its children (text runs  *)
(* and elements); tag names and attributes are left out.                   *)
(***************************************************************************)
\* resume-data (src/unnamed/part_002)
social_resume ==
  Arr(<<[name |-> Str("GitHub"),
         url |-> Str("https://github.com/ban-nguyen"),
         icon |-> Str("github")],
        [name |-> Str("LinkedIn"),
         url |-> Str("https://www.linkedin.com/in/ban-nguyen/"),
         icon |-> Str("linkedin")]>>)
education_resume ==
  Arr(<<[school |-> Str("Swiss International University"),
         degree |-> Str("Bachelor's Degree, Marketing"),
         start |-> Str("2016"),
         end |-> Str("2018")],
        [school |-> Str("Tay Nguyen University"),
         degree |-> Str("Bachelor's Degree, Faculty of Agriculture and Forestry"),
         start |-> Str("1997"),
         end |-> Str("2001")]>>)
work_resume ==
  Arr(<<[company |-> Str("MoMo (M_Service)"),
         link |-> Str("https://momo.vn/"),
         badges |-> Arr(<<Str("AI"), Str("Fintech"), Str("Travel")>>),
         title |-> Str("Product Management - Team Leader"),
         start |-> Str("2024"),
         end |-> Str("Present"),
         description |-> Str("Led product strategy for MoMo Travel, leveraging a marketing foundation to drive AI innovation. Developed custom AI applications and multi-agent systems, achieving a CSAT of over 90%. Implemented AI-powered competitive analysis, RAG-based knowledge systems, and robust data pipelines, significantly improving team efficiency and strategic decision-making.")],
        [company |-> Str("YODY Fashion JSC."),
         link |-> Str("https://yody.vn/"),
         badges |-> Arr(<<Str("E-commerce"), Str("Fashion")>>),
         title |-> Str("Head of Product Development"),
         start |-> Str("2022"),
         end |-> Str("2023"),
         description |-> Str("Led the strategic transformation from a Sapo-based platform to a full omni-channel e-commerce solution. Utilized a BigQuery-based Customer Data Platform (CDP) to unify data and optimize the customer journey. Recruited and managed a cross-functional product team.")],
        [company |-> Str("TIKI"),
         link |-> Str("https://tiki.vn/"),
         badges |-> Arr(<<Str("E-commerce"), Str("Marketplace")>>),
         title |-> Str("Senior Product Manager"),
         start |-> Str("2020"),
         end |-> Str("2022"),
         description |-> Str("Launched and scaled DoriDori, Vietnam's first integrated C2C marketplace, achieving 20% daily active user retention. Led the development of the underlying OMS and CRM systems and expanded the digital service business, doubling its GMV.")],
        [company |-> Str("VNG Corporation"),
         link |-> Str("https://www.vng.com.vn/"),
         badges |-> Arr(<<Str("Entertainment"), Str("Fintech")>>),
         title |-> Str("Senior Product Manager"),
         start |-> Str("2019"),
         end |-> Str("2020"),
         description |-> Str("Managed TIX.VN, Vietnam's largest movie aggregator, and delivered a 100% revenue increase. Led the strategic integration with major cinema partners like CGV and established ZaloPay as a default payment option within the Zalo super-app.")],
        [company |-> Str("Leo Burnett Vietnam"),
         link |-> Str("https://leoburnett.com.vn/"),
         badges |-> Arr(<<Str("Digital Marketing")>>),
         title |-> Str("Digital Producer"),
         start |-> Str("2016"),
         end |-> Str("2019"),
         description |-> Str("Managed award-winning digital campaigns for major clients, winning MMAVN 2017's 'Best in Show'. Pioneered the first Spark AR implementation for a campaign in Vietnam, featured in a Facebook Spotlight.")],
        [company |-> Str("Y&R"),
         link |-> Str("https://www.yr.com/"),
         badges |-> Arr(<<Str("Digital Marketing")>>),
         title |-> Str("Digital Producer"),
         start |-> Str("2015"),
         end |-> Str("2016"),
         description |-> Str("Managed digital portfolios for global brands like Microsoft, Emirates, and Red Bull. Coordinated the idea development process between creative, accounts, and technical teams using agile methodologies.")],
        [company |-> Str("VNG Corporation"),
         link |-> Str("https://www.vng.com.vn/"),
         badges |-> Arr(<<Str("Gaming")>>),
         title |-> Str("Product Manager"),
         start |-> Str("2014"),
         end |-> Str("2015"),
         description |-> Str("Led product management for Vuigame.vn, achieving a 150% DAU increase and tripling time-on-site after a major relaunch. Acted as both Product Manager and Product Designer.")],
        [company |-> Str("Freelance"),
         link |-> Str(""),
         badges |-> Arr(<<Str("Web Development")>>),
         title |-> Str("Web Developer"),
         start |-> Str("2012"),
         end |-> Str("2014"),
         description |-> Str("Delivered full-stack web development projects, specializing in e-commerce. Worked on the front-end for TheGioiDiDong v3.0 and gained experience with international development standards and agile practices.")],
        [company |-> Str("TX INC."),
         link |-> Str(""),
         badges |-> Arr(<<Str("Social Network")>>),
         title |-> Str("Product Manager"),
         start |-> Str("2011"),
         end |-> Str("2012"),
         description |-> Str("Led product management for Truongxua.com, one of Vietnam's first school-focused social networks. Managed a cross-functional team of over 15 members and achieved a 200% increase in new user acquisition.")]>>)
skills_resume ==
  Arr(<<Str("Marketing-Driven Product Strategy"),
        Str("Applied AI & Automation"),
        Str("Custom AI Application Development"),
        Str("Multi-Agent Systems Architecture"),
        Str("Data Analysis & Analytics"),
        Str("Cross-functional Team Leadership"),
        Str("Vibe-Coding (Python, TypeScript, Swift)"),
        Str("RAG & Knowledge Base Systems"),
        Str("Data Pipeline Architecture (Supabase, BigQuery)"),
        Str("Agile & Scrum Methodologies"),
        Str("Prompt & Context Engineering"),
        Str("Full-stack Development Understanding")>>)
projects_resume ==
  Arr(<<[title |-> Str("Human Act Prize 2024"),
         techStack |-> Arr(<<Str("Social Impact"),
                             Str("Strategic Value Alignment")>>),
         description |-> Str("Won the Human Act Prize for Sustainable Development Ideas for the 'Góp Lá Vá Rừng' initiative, aligning product innovation with social impact."),
         link |-> [label |-> Str("Human Act Prize"),
                   href |-> Str("https://www.humanactprize.org/")]],
        [title |-> Str("MMVN 2017 Awards"),
         techStack |-> Arr(<<Str("Marketing Innovation"),
                             Str("Mobile Creative")>>),
         description |-> Str("Won 'Best in Show', 'Most Engaging Mobile Creative', and 'Mobile Website' awards for creating market-leading digital experiences."),
         link |-> [label |-> Str("MMA Smarties"),
                   href |-> Str("https://www.mmasmarties.com/about")]],
        [title |-> Str("Facebook Spotlight 2019"),
         techStack |-> Arr(<<Str("AR"), Str("Technical Innovation")>>),
         description |-> Str("Featured for a pioneering Spark AR implementation, showcasing the intersection of technical innovation and marketing creativity."),
         link |-> [label |-> Str("Spark AR"),
                   href |-> Str("https://sparkar.facebook.com/ar-studio/")]],
        [title |-> Str("First CGV Cinema Integration"),
         techStack |-> Arr(<<Str("Market Leadership"),
                             Str("Strategic Partnership")>>),
         description |-> Str("Led TIX.VN to become the first movie aggregator in Vietnam to successfully integrate with the CGV cinema chain."),
         link |-> [label |-> Str("TIX.VN"), href |-> Str("https://tix.vn/")]],
        [title |-> Str("Vietnam's First C2C Marketplace"),
         techStack |-> Arr(<<Str("Innovation Leadership"),
                             Str("Marketplace")>>),
         description |-> Str("Launched the first integrated C2C marketplace in Vietnam, identifying and capitalizing on a new market opportunity."),
         link |-> [label |-> Str("TIKI"), href |-> Str("https://tiki.vn/")]]>>)
RESUME_DATA ==
  [name |-> Str("Ban Nguyen"),
   initials |-> Str("BN"),
   location |-> Str("Ho Chi Minh City, Viet Nam"),
   locationLink |-> Str("https://www.google.com/maps/place/Ho+Chi+Minh+City"),
   about |-> Str("Product Manager"),
   summary |-> Str("Product Manager with a strategic marketing foundation and hands-on AI development expertise. Proven track record of delivering a 100% revenue increase at TIX.VN and achieving a CSAT of over 90% through AI-powered automation systems. Skilled in building comprehensive AI applications from the ground up using a modern stack (Python, TypeScript, Swift, Bash) and multi-agent architectures. My marketing background provides a unique advantage in driving product-led growth by combining customer psychology, market positioning, and strategic communication with technical AI implementation. My diverse educational background in Agriculture and Marketing fosters a systems-thinking approach to create customer-centric, innovative solutions that deliver measurable business impact."),
   avatarUrl |-> Str("https://angi.truanay.com/images/photo-2-square.jpg"),
   personalWebsiteUrl |-> Str("https://ducban.com"),
   contact |-> [email |-> Str("nguyenducban@me.com"),
                tel |-> Str("+84983472120"),
                social |-> social_resume],
   education |-> education_resume,
   work |-> work_resume,
   skills |-> skills_resume,
   projects |-> projects_resume]

\* the generic data (src/src/data/generic-resume-data.tsx)
social_generic ==
  Arr(<<[name |-> Str("Website"),
         url |-> Str("https://ducban.com"),
         icon |-> Str("globe")],
        [name |-> Str("LinkedIn"),
         url |-> Str("https://www.linkedin.com/in/bannguyen/"),
         icon |-> Str("linkedin")]>>)
education_generic ==
  Arr(<<[school |-> Str("Swiss International University"),
         degree |-> Str("Bachelor's Degree in Marketing, School of Marketing and Leadership"),
         start |-> Str("2016"),
         end |-> Str("2018")],
        [school |-> Str("Tay Nguyen University"),
         degree |-> Str("Bachelor's Degree in Agriculture and Forestry"),
         start |-> Str("1997"),
         end |-> Str("2001")]>>)
work_generic ==
  Arr(<<[company |-> Str("MoMo (M_Service)"),
         link |-> Str("https://momo.vn/"),
         badges |-> Arr(<<Str("AI"),
                          Str("Automation"),
                          Str("Travel"),
                          Str("Fintech")>>),
         title |-> Str("Product Management - Team Leader"),
         start |-> Str("2024"),
         end |-> Null,
         description |-> Element(<<Str("Leading product strategy and development for MoMo Travel, one of Vietnam's top digital travel agencies."),
                                   Element(<<Element(<<Str("Launched AI-powered competitive analysis automation using Puppeteer crawlers and n8n workflows, delivering real-time market intelligence for strategic decision-making")>>),
                                             Element(<<Str("Built multi-agent AI systems with cross-platform capabilities between Claude Code, Factory Droid, and Gemini")>>),
                                             Element(<<Str("Developed RAG-based knowledge base system reducing cross-team meeting times by 30%")>>),
                                             Element(<<Str("Drove 1.5 percentage point conversion rate increase in train ticket booking through backend refactor and UX redesign")>>),
                                             Element(<<Str("Built multi-sided travel marketplace connecting 50+ suppliers including Vietnam Airlines, Vietjet Air, and Vietnam Railways")>>)>>)>>)],
        [company |-> Str("YODY Fashion JSC."),
         link |-> Str("https://yody.vn/"),
         badges |-> Arr(<<Str("E-commerce"),
                          Str("CDP"),
                          Str("Omni-channel")>>),
         title |-> Str("Head of Product Development"),
         start |-> Str("2022"),
         end |-> Str("2023"),
         description |-> Element(<<Str("Led strategic transformation from Sapo-based platform to omni-channel e-commerce solution."),
                                   Element(<<Element(<<Str("Developed comprehensive omni-channel strategy leveraging Customer Data Platform (CDP) built on BigQuery")>>),
                                             Element(<<Str("Designed and implemented store promotion and incentive system with volume-based discounts")>>),
                                             Element(<<Str("Recruited, trained, and led cross-functional team of Product Managers, Product Owners, Business Analysts, and Product Designers")>>)>>)>>)],
        [company |-> Str("TIKI"),
         link |-> Str("https://tiki.vn/"),
         badges |-> Arr(<<Str("E-commerce"),
                          Str("C2C Marketplace"),
                          Str("Digital Services")>>),
         title |-> Str("Senior Product Manager"),
         start |-> Str("2020"),
         end |-> Str("2022"),
         description |-> Element(<<Str("Led product management for DoriDori (Vietnam's first Community Commerce platform) and Digital Service Business expansion."),
                                   Element(<<Element(<<Str("Launched Vietnam's first integrated C2C marketplace within main e-commerce app, achieving 40% CVR discovery to PDP")>>),
                                             Element(<<Str("Led hands-on development of foundational Order Management System (OMS) and Customer Relationship Management (CRM) systems")>>),
                                             Element(<<Str("Scaled digital service use cases including mobile top-up, bill payments - GMV doubled for three consecutive months during COVID")>>)>>)>>)],
        [company |-> Str("VNG Corporation"),
         link |-> Str("https://vng.com.vn/"),
         badges |-> Arr(<<Str("Entertainment"),
                          Str("Fintech"),
                          Str("Marketplace")>>),
         title |-> Str("Senior Product Manager"),
         start |-> Str("2019"),
         end |-> Str("2020"),
         description |-> Element(<<Str("Dual-role managing TIX.VN (Vietnam's largest movie aggregator) and ZaloPay performance optimization."),
                                   Element(<<Element(<<Str("Led TIX.VN as multi-sided marketplace connecting cinema partners including CGV, Galaxy, BHD")>>),
                                             Element(<<Str("First movie aggregator to successfully implement CGV integration with Vietnam's dominant cinema chain (45% market share)")>>),
                                             Element(<<Str("Delivered 100% revenue increase across aggregator platform and mini-app ecosystem")>>)>>)>>)],
        [company |-> Str("Leo Burnett Vietnam"),
         link |-> Str("https://www.leoburnett.com/"),
         badges |-> Arr(<<Str("AR"), Str("Leads Generation")>>),
         title |-> Str("Digital Producer"),
         start |-> Str("2016"),
         end |-> Str("2019"),
         description |-> Element(<<Str("Managed digital projects for major clients including FrieslandCampina Vietnam, Samsung Vietnam, Romano."),
                                   Element(<<Element(<<Str("Won MMAVN 2017's Best in Show, Most Engaging Mobile Creative, and Mobile Website awards")>>),
                                             Element(<<Str("Featured in Facebook Spotlight 2019 with first Spark AR implementation for AFF 2019 Vietnam Football Team")>>)>>)>>)],
        [company |-> Str("Y&R"),
         link |-> Str("https://www.vml.com/"),
         badges |-> Arr(<<Str("Digital Production"), Str("Client Services")>>),
         title |-> Str("Digital Producer"),
         start |-> Str("2015"),
         end |-> Str("2016"),
         description |-> Str("Managed digital portfolios for Microsoft Vietnam, Emirates, and Red Bull. Led idea development process coordination using agile methodology.")],
        [company |-> Str("VNG Corporation"),
         link |-> Str("https://vng.com.vn/"),
         badges |-> Arr(<<Str("Traffics Distribusion"), Str("Gaming")>>),
         title |-> Str("Product Manager"),
         start |-> Str("2014"),
         end |-> Str("2015"),
         description |-> Element(<<Str("Led product management for Vuigame.vn, Vietnam's leading mini-game portal."),
                                   Element(<<Element(<<Str("Released comprehensive new version achieving 150% DAU increase, tripled time-on-site")>>),
                                             Element(<<Str("Promoted mini-game portal as top internal traffic source for 360game.vn")>>)>>)>>)],
        [company |-> Str("TheGioiDiDong"),
         badges |-> Arr(<<Str("Freelancing"),
                          Str("Web Development"),
                          Str("E-commerce"),
                          Str("SEO")>>),
         title |-> Str("Full-stack Web Developer"),
         start |-> Str("2012"),
         end |-> Str("2014"),
         description |-> Str("Full-stack web development specializing in e-commerce platforms. Delivered 3-month front-end development project for TheGioiDiDong v3.0.")],
        [company |-> Str("TX INC."),
         badges |-> Arr(<<Str("Social Network"), Str("Team Leadership")>>),
         title |-> Str("Product Manager"),
         start |-> Str("2011"),
         end |-> Str("2012"),
         description |-> Element(<<Str("Led product management for Truongxua.com, Vietnam's pioneering school-focused social network."),
                                   Element(<<Element(<<Str("Managed cross-functional team of 15+ members including Product Managers, UI/UX designers")>>),
                                             Element(<<Str("Delivered 150% increase in time-on-site and 200% increase in new user acquisition")>>)>>)>>)]>>)
skills_generic ==
  Arr(<<Str("Product Management & Strategy"),
        Str("Cross-functional Team Leadership"),
        Str("Data Analysis & Performance Optimization"),
        Str("Agile & Scrum Methodologies"),
        Str("AI Development (Python, TypeScript)"),
        Str("LangChain & AI Agents"),
        Str("Prompt Engineering"),
        Str("N8N Automation"),
        Str("Customer Data Platform (CDP)"),
        Str("Google Analytics & Amplitude"),
        Str("BigQuery & Supabase"),
        Str("P&L Management"),
        Str("Growth Hacking & User Acquisition"),
        Str("A/B Testing & Conversion Optimization"),
        Str("API Integration & System Architecture")>>)
projects_generic ==
  Arr(<<[title |-> Str("AI-Powered Competitive Analysis System"),
         techStack |-> Arr(<<Str("Python"),
                             Str("TypeScript"),
                             Str("Puppeteer"),
                             Str("N8N"),
                             Str("BigQuery")>>),
         description |-> Str("Built comprehensive monitoring system using Puppeteer crawlers to track competitor websites and campaigns, providing real-time market intelligence and strategic insights for travel industry operations."),
         link |-> [label |-> Str("Internal Project"),
                   href |-> Str("https://momo.vn/")]],
        [title |-> Str("Góp Lá Vá Rừng - Sustainability Initiative"),
         techStack |-> Arr(<<Str("Rule-based Triggers"),
                             Str("Campaign Management"),
                             Str("Partnership Integration")>>),
         description |-> Str("Led co-branding campaign with Vietnam Airlines winning Human Act Prize 2024. Generated 35,000 trees planted across 50 hectares through automated customer engagement and rule-based trigger missions embedded in each ticket sold."),
         link |-> [label |-> Str("Award-Winning Project"),
                   href |-> Str("https://momo.vn/")]],
        [title |-> Str("Vietnam's First C2C Marketplace - DoriDori"),
         techStack |-> Arr(<<Str("OMS"),
                             Str("CRM"),
                             Str("Multi-carrier Logistics"),
                             Str("Amplitude"),
                             Str("CDP")>>),
         description |-> Str("Launched Vietnam's first integrated C2C marketplace within main e-commerce app, achieving 40% CVR discovery to PDP, 5% CVR to orders, and 20% daily active user retention. Built foundational OMS and CRM systems from scratch."),
         link |-> [label |-> Str("Market Innovation"),
                   href |-> Str("https://tiki.vn/")]],
        [title |-> Str("TIX.VN - CGV Integration"),
         techStack |-> Arr(<<Str("API Integration"),
                             Str("Revenue Sharing Models"),
                             Str("Inventory Synchronization")>>),
         description |-> Str("First movie aggregator to successfully implement CGV integration with Vietnam's dominant cinema chain (45% market share) in the $160M cinema market. Delivered 100% revenue increase across aggregator platform and mini-app ecosystem."),
         link |-> [label |-> Str("Strategic Partnership"),
                   href |-> Str("https://vng.com.vn/")]],
        [title |-> Str("Digital Services Business Expansion"),
         techStack |-> Arr(<<Str("Full-stack Development"),
                             Str("Scrum Framework"),
                             Str("Automated Testing")>>),
         description |-> Str("Successfully onboarded and scaled digital service use cases including mobile top-up, bill payments. Became main cash flow during COVID lockdown with GMV doubling for three consecutive months after electricity & water bill rollout."),
         link |-> [label |-> Str("Business Diversification"),
                   href |-> Str("https://tiki.vn/")]],
        [title |-> Str("RAG-Based Knowledge Base System"),
         techStack |-> Arr(<<Str("Python"),
                             Str("LangChain"),
                             Str("OpenAI"),
                             Str("Supabase"),
                             Str("TypeScript")>>),
         description |-> Str("Developed RAG-based Chat agent system that significantly improved cross-team collaboration by providing instant access to institutional knowledge and reducing information silos. Reduced cross-team meeting times by 30%."),
         link |-> [label |-> Str("Internal Project"),
                   href |-> Str("https://momo.vn/")]]>>)
RESUME_DATA_generic ==
  [name |-> Str("Ban Nguyen"),
   initials |-> Str("BN"),
   location |-> Str("Ho Chi Minh City, Viet Nam"),
   locationLink |-> Str("https://www.google.com/maps/place/Ho+Chi+Minh+City"),
   about |-> Str("Senior Product Manager with 10+ years of experience delivering 100% revenue growth, 2x GMV expansion, and 1.5-2.2pp conversion improvements across travel, e-commerce, fintech, and entertainment."),
   summary |-> Element(<<Str("Senior Product Manager")>>),
   avatarUrl |-> Str("https://angi.truanay.com/images/photo-2-square.jpg"),
   personalWebsiteUrl |-> Str("https://ducban.com"),
   contact |-> [email |-> Str("nguyenducban@me.com"),
                tel |-> Str("+84983472120"),
                social |-> social_generic],
   education |-> education_generic,
   work |-> work_generic,
   skills |-> skills_generic,
   projects |-> projects_generic]

\* the guide's data (src/unnamed/part_001)
social_guide ==
  Arr(<<[name |-> Str("GitHub"),
         url |-> Str("https://github.com/yourusername"),
         icon |-> Element(<<>>),
         navbar |-> Bool(TRUE)],
        [name |-> Str("LinkedIn"),
         url |-> Str("https://linkedin.com/in/yourusername"),
         icon |-> Element(<<>>),
         navbar |-> Bool(TRUE)],
        [name |-> Str("X"),
         url |-> Str("https://x.com/yourusername"),
         icon |-> Element(<<>>),
         navbar |-> Bool(FALSE)]>>)
education_guide ==
  Arr(<<[school |-> Str("Stanford University"),
         degree |-> Str("Bachelor's in Computer Science"),
         start |-> Str("2015"),
         end |-> Str("2019"),
         link |-> Str("https://stanford.edu")]>>)
work_guide ==
  Arr(<<[company |-> Str("Meta"),
         title |-> Str("Senior Software Engineer"),
         start |-> Str("2021"),
         end |-> Str("Present"),
         description |-> Str("Led development of internal tools used by 10,000+ employees. Improved performance by 40% through optimization."),
         link |-> Str("https://meta.com"),
         badges |-> Arr(<<Str("React"),
                          Str("GraphQL"),
                          Str("TypeScript"),
                          Str("Node.js")>>)],
        [company |-> Str("Startup Inc"),
         title |-> Str("Full Stack Engineer"),
         start |-> Str("2019"),
         end |-> Str("2021"),
         description |-> Str("Built MVP from scratch. Scaled from 0 to 100k users."),
         badges |-> Arr(<<Str("Next.js"), Str("PostgreSQL"), Str("AWS")>>)]>>)
skills_guide ==
  Arr(<<Str("JavaScript"),
        Str("TypeScript"),
        Str("React"),
        Str("Next.js"),
        Str("Node.js"),
        Str("PostgreSQL"),
        Str("GraphQL"),
        Str("AWS"),
        Str("Docker")>>)
projects_guide ==
  Arr(<<[title |-> Str("Project Alpha"),
         href |-> Str("https://projectalpha.com"),
         dates |-> Str("Jan 2023 - Present"),
         active |-> Bool(TRUE),
         description |-> Str("A platform that helps developers find remote jobs. Built with Next.js 14, Prisma, and PostgreSQL."),
         technologies |-> Arr(<<Str("Next.js"),
                                Str("TypeScript"),
                                Str("PostgreSQL"),
                                Str("Prisma"),
                                Str("TailwindCSS")>>),
         links |-> Arr(<<[type |-> Str("Website"),
                          href |-> Str("https://projectalpha.com"),
                          icon |-> Element(<<>>)],
                         [type |-> Str("GitHub"),
                          href |-> Str("https://github.com/you/project-alpha"),
                          icon |-> Element(<<>>)]>>),
         image |-> Str("/projects/alpha.png")]>>)
RESUME_DATA_guide ==
  [name |-> Str("Your Name"),
   initials |-> Str("YN"),
   location |-> Str("San Francisco, CA"),
   locationLink |-> Str("https://www.google.com/maps/place/san-francisco"),
   about |-> Str("Full Stack Engineer passionate about building great products"),
   summary |-> Str("Experienced software engineer with 5+ years..."),
   avatarUrl |-> Str("https://avatars.githubusercontent.com/u/yourusername"),
   personalWebsiteUrl |-> Str("https://yourwebsite.com"),
   contact |-> [email |-> Str("you@example.com"),
                tel |-> Str("+1234567890"),
                social |-> social_guide],
   education |-> education_guide,
   work |-> work_guide,
   skills |-> skills_guide,
   projects |-> projects_guide]
\* the three data files
Files == {RESUME_DATA, RESUME_DATA_generic, RESUME_DATA_guide}

\* a record of type ResumeData: a data file with its work list cut to its
\* first w entries and its other lists to their first n entries
ResumeData(file, w, n) ==
  [file EXCEPT !.contact.social = Arr(Prefix(@.items, n)),
               !.education = Arr(Prefix(@.items, n)),
               !.work = Arr(Prefix(@.items, w)),
               !.skills = Arr(Prefix(@.items, n)),
               !.projects = Arr(Prefix(@.items, n))]

\* the records the program is run on: each data file as it is, and each
\* with its lists cut to the bounds
Records ==
  Files \cup { ResumeData(file, w, n) : file \in Files, w \in 0..MaxWork, n \in 0..MaxLen }

(***************************************************************************)
(* The data-to-wire projection (src/apollo/resolvers.ts).                  *)
(***************************************************************************)
\* reactNodeToString: a string is returned as is, anything else becomes a
\* fixed placeholder
reactNodeToString(node) ==
  IF IsString(node) THEN node ELSE Str("[React Component]")

\* Array.from(xs): a new array with the same elements; undefined and null
\* are not iterable
ArrayFrom(a) ==
  CASE a.kind = "undefined" ->
         TypeError("undefined is not iterable (cannot read property Symbol(Symbol.iterator))")
    [] a.kind = "null" ->
         TypeError("object null is not iterable (cannot read property Symbol(Symbol.iterator))")
    [] OTHER -> Arr(a.items)

SocialToGraphQL(s) ==
  [name |-> s.name, url |-> s.url, navbar |-> Prop(s, "navbar")]
EducationToGraphQL(edu) ==
  [school |-> edu.school, degree |-> edu.degree, start |-> edu.start,
   end |-> edu.end, link |-> Prop(edu, "link")]
WorkToGraphQL(w) ==
  [company |-> w.company, title |-> w.title, start |-> w.start, end |-> w.end,
   description |-> w.description, link |-> Prop(w, "link"),
   badges |-> IF Truthy(Prop(w, "badges")) THEN ArrayFrom(Prop(w, "badges"))
              ELSE Undefined]
LinkToGraphQL(link) == [type |-> link.type, href |-> link.href]
\* the object built for a project; Array.from(p.technologies) and
\* p.links.map throw when the project has no such list
ProjectToGraphQL(p) ==
  IF IsThrown(ArrayFrom(Prop(p, "technologies")))
  THEN ArrayFrom(Prop(p, "technologies"))
  ELSE IF ~IsArray(Prop(p, "links"))
  THEN TypeError("Cannot read properties of undefined (reading 'map')")
  ELSE [title |-> p.title, href |-> Prop(p, "href"), dates |-> Prop(p, "dates"),
        active |-> Prop(p, "active"),
        description |-> p.description,
        technologies |-> ArrayFrom(Prop(p, "technologies")),
        links |-> Arr([i \in 1..Len(p.links.items) |-> LinkToGraphQL(p.links.items[i])]),
        image |-> Prop(p, "image"), video |-> Prop(p, "video")]

\* data.education.map(...)
MapEducation(education) ==
  Arr([i \in 1..Len(education.items) |-> EducationToGraphQL(education.items[i])])

\* variant: the work entries are mapped in reverse order
MapWork_reversed(work) ==
  Arr([i \in 1..Len(work.items) |->
         WorkToGraphQL(work.items[Len(work.items) + 1 - i])])

\* data.work.map(...)
MapWork(work) ==
  Arr([i \in 1..Len(work.items) |-> WorkToGraphQL(work.items[i])])

\* data.projects.map(...): the first throw of the callback ends the map
MapProjects(projects) ==
  IF \E i \in 1..Len(projects.items) : IsThrown(ProjectToGraphQL(projects.items[i]))
  THEN ProjectToGraphQL(
         projects.items[CHOOSE i \in 1..Len(projects.items) :
            /\ IsThrown(ProjectToGraphQL(projects.items[i]))
            /\ \A j \in 1..(i - 1) : ~IsThrown(ProjectToGraphQL(projects.items[j]))])
  ELSE Arr([i \in 1..Len(projects.items) |-> ProjectToGraphQL(projects.items[i])])

\* resumeDataToGraphQL: the wire record, or the error thrown while the
\* object literal is evaluated
resumeDataToGraphQL(data) ==
  IF IsThrown(MapProjects(data.projects)) THEN MapProjects(data.projects)
  ELSE
  [name |-> data.name,
   initials |-> data.initials,
   location |-> data.location,
   locationLink |-> data.locationLink,
   about |-> data.about,
   summary |-> IF IsString(data.summary) THEN data.summary
               ELSE reactNodeToString(data.summary),
   avatarUrl |-> data.avatarUrl,
   personalWebsiteUrl |-> data.personalWebsiteUrl,
   contact |-> [email |-> data.contact.email,
                tel |-> data.contact.tel,
                social |-> Arr([i \in 1..Len(data.contact.social.items) |-> SocialToGraphQL(data.contact.social.items[i])])],
   education |-> MapEducation(data.education),
   work |-> MapWork(data.work),
   skills |-> ArrayFrom(data.skills),
   projects |-> MapProjects(data.projects)]

(***************************************************************************)
(* The GraphQL schema generated from the decorated classes                 *)
(* (src/apollo/type-defs.ts): every field of Me as a path, with its scalar *)
(* type and whether it is declared nullable.                               *)
(***************************************************************************)
Field(type, nullable) == [type |-> type, nullable |-> nullable]
MeSchema ==
  (<<"name">> :> Field("String", FALSE)) @@
  (<<"initials">> :> Field("String", FALSE)) @@
  (<<"location">> :> Field("String", FALSE)) @@
  (<<"locationLink">> :> Field("String", FALSE)) @@
  (<<"about">> :> Field("String", FALSE)) @@
  (<<"summary">> :> Field("String", FALSE)) @@
  (<<"avatarUrl">> :> Field("String", FALSE)) @@
  (<<"personalWebsiteUrl">> :> Field("String", FALSE)) @@
  (<<"contact", "email">> :> Field("String", FALSE)) @@
  (<<"contact", "tel">> :> Field("String", FALSE)) @@
  (<<"contact", "social", "name">> :> Field("String", FALSE)) @@
  (<<"contact", "social", "url">> :> Field("String", FALSE)) @@
  (<<"contact", "social", "navbar">> :> Field("Boolean", TRUE)) @@
  (<<"education", "school">> :> Field("String", FALSE)) @@
  (<<"education", "degree">> :> Field("String", FALSE)) @@
  (<<"education", "start">> :> Field("String", FALSE)) @@
  (<<"education", "end">> :> Field("String", FALSE)) @@
  (<<"education", "link">> :> Field("String", TRUE)) @@
  (<<"work", "company">> :> Field("String", FALSE)) @@
  (<<"work", "title">> :> Field("String", FALSE)) @@
  (<<"work", "start">> :> Field("String", FALSE)) @@
  (<<"work", "end">> :> Field("String", FALSE)) @@
  (<<"work", "description">> :> Field("String", FALSE)) @@
  (<<"work", "link">> :> Field("String", TRUE)) @@
  (<<"work", "badges">> :> Field("StringList", TRUE)) @@
  (<<"skills">> :> Field("StringList", FALSE)) @@
  (<<"projects", "title">> :> Field("String", FALSE)) @@
  (<<"projects", "href">> :> Field("String", TRUE)) @@
  (<<"projects", "dates">> :> Field("String", FALSE)) @@
  (<<"projects", "active">> :> Field("Boolean", FALSE)) @@
  (<<"projects", "description">> :> Field("String", FALSE)) @@
  (<<"projects", "technologies">> :> Field("StringList", FALSE)) @@
  (<<"projects", "links", "type">> :> Field("String", FALSE)) @@
  (<<"projects", "links", "href">> :> Field("String", FALSE)) @@
  (<<"projects", "image">> :> Field("String", TRUE)) @@
  (<<"projects", "video">> :> Field("String", TRUE))
MeFields == DOMAIN MeSchema

\* the root Query type: `me` when built from MeResolver, nothing when built
\* from the empty resolver list of the fallback
RootFields(schema) == IF schema = "full" THEN {"me"} ELSE {}

(***************************************************************************)
(* Queries.  A query selects, under one root field, a set of field paths.  *)
(***************************************************************************)
Query(root, selection) == [root |-> root, selection |-> selection]
UnknownPaths == {<<"unknownField">>, <<"work", "unknownField">>}
Selections ==
  { {p} : p \in MeFields \cup UnknownPaths } \cup
  { {<<"name">>, <<"about">>, <<"skills">>},
    {<<"name">>, <<"unknownField">>},
    {<<"work", "company">>, <<"work", "end">>, <<"work", "badges">>},
    {<<"summary">>, <<"work", "description">>} }
\* the introspection fields of the root type
IntrospectionFields == {"__schema", "__type"}
\* the meta fields every schema answers
MetaFields == {"__typename"} \cup IntrospectionFields
Queries ==
  { Query("me", sel) : sel \in Selections } \cup { Query(f, {}) : f \in MetaFields }
\* a request body that is not JSON: no query can be read from it
MalformedBody == Query("{ invalid json }", {})
Methods == {"GET", "POST"}

(***************************************************************************)
(* Execution of a query (graphql-js as driven by Apollo Server).           *)
(***************************************************************************)
\* the value found at a path: arrays of objects are mapped over
RECURSIVE Get(_, _)
Get(v, path) ==
  IF path = <<>> THEN v
  ELSE IF IsObject(v) THEN Get(Prop(v, Head(path)), Tail(path))
  ELSE IF IsArray(v) THEN Arr([i \in 1..Len(v.items) |-> Get(v.items[i], path)])
  ELSE v

\* the leaf values found at a path
RECURSIVE Leaves(_, _)
Leaves(v, path) ==
  IF path = <<>> THEN {v}
  ELSE IF IsObject(v) THEN Leaves(Prop(v, Head(path)), Tail(path))
  ELSE IF IsArray(v) THEN UNION { Leaves(v.items[i], path) : i \in 1..Len(v.items) }
  ELSE {v}

\* can the value be returned for a field of this type
Serializable(v, f) ==
  CASE v.kind \in {"null", "undefined"} -> f.nullable
    [] f.type = "String" -> IsString(v)
    [] f.type = "Boolean" -> v.kind = "boolean"
    [] f.type = "StringList" ->
         IsArray(v) /\ \A i \in 1..Len(v.items) : IsString(v.items[i])
    [] OTHER -> FALSE

\* JSON output of a value: undefined is written as null
RECURSIVE ToJson(_)
ToJson(v) ==
  IF IsObject(v) THEN v
  ELSE IF v.kind = "undefined" THEN Null
  ELSE IF IsArray(v) THEN Arr([i \in 1..Len(v.items) |-> ToJson(v.items[i])])
  ELSE v

Absent == [kind |-> "absent"]
Data(root, fields) == [kind |-> "object", root |-> root, fields |-> fields]
Error(message, path, code) == [message |-> message, path |-> path, code |-> code]
Response(data, errors) == [data |-> data, errors |-> errors]

\* the paths of a selection the schema does not define
InvalidPaths(schema, q) ==
  IF q.root \in MetaFields THEN {}
  ELSE IF q.root \notin RootFields(schema) THEN {<<q.root>>}
  ELSE { p \in q.selection : p \notin MeFields }

\* the paths of a selection whose value cannot be returned
FailingPaths(wire, q) ==
  { p \in q.selection : \E v \in Leaves(wire, p) : ~Serializable(v, MeSchema[p]) }

\* what an introspection query tells about a schema
SchemaInfo(schema) == [queryType |-> "Query", fields |-> RootFields(schema)]

\* the response to a query, given the outcome of the resolver: the wire
\* record it returns or the error it throws.  `me` is a non-null field of
\* Query, so an error in it leaves no data.
Execute(schema, q, wire) ==
  IF InvalidPaths(schema, q) # {}
  THEN Response(Absent,
         { Error("Cannot query field", p, "GRAPHQL_VALIDATION_FAILED")
             : p \in InvalidPaths(schema, q) })
  ELSE IF q.root = "__typename"
  THEN Response(Data("__typename", <<>>), {})
  ELSE IF q.root \in IntrospectionFields
  THEN Response(Data(q.root, SchemaInfo(schema)), {})
  ELSE IF IsThrown(wire)
  THEN Response(Null, {Error(wire.message, <<"me">>, "INTERNAL_SERVER_ERROR")})
  ELSE IF FailingPaths(wire, q) # {}
  THEN Response(Null,
         { Error("Cannot return value for field", p, "INTERNAL_SERVER_ERROR")
             : p \in FailingPaths(wire, q) })
  ELSE Response(
         Data("me", [p \in q.selection |-> ToJson(Get(wire, p))]), {})

\* variant: introspection is enabled in every build
introspection_enabled(nodeEnv) == TRUE

\* introspection: process.env.NODE_ENV !== "production"
introspection(nodeEnv) == nodeEnv # "production"

\* ApolloServer: with introspection disabled a query of an introspection
\* field is rejected by validation; every other query is executed
ApolloServer(schema, allowed, q, wire) ==
  IF ~allowed /\ q.root \in IntrospectionFields
  THEN Response(Absent,
         {Error("GraphQL introspection is not allowed", <<q.root>>,
                "GRAPHQL_VALIDATION_FAILED")})
  ELSE Execute(schema, q, wire)

\* the error of a request whose body cannot be parsed
BadRequest == Error("Unexpected token in JSON", <<>>, "BAD_REQUEST")

\* includeStacktraceInErrorResponses: process.env.NODE_ENV !== "production"
includeStacktraceInErrorResponses(nodeEnv) == nodeEnv # "production"

\* the errors as they are sent: route.ts gives ApolloServer no formatError,
\* so the message and the code of an error are sent as they are, with the
\* stack trace when the option asks for it
SentErrors(errors, stacktrace) ==
  { [message |-> e.message, path |-> e.path, code |-> e.code,
     stacktrace |-> stacktrace] : e \in errors }

\* the handler made by startServerAndCreateNextHandler: the answer to a
\* request in a build, given the outcome of the resolver
Serve(schema, nodeEnv, q, wire) ==
  IF q = MalformedBody
  THEN Response(Absent,
         SentErrors({BadRequest}, includeStacktraceInErrorResponses(nodeEnv)))
  ELSE Response(
         ApolloServer(schema, introspection(nodeEnv), q, wire).data,
         SentErrors(ApolloServer(schema, introspection(nodeEnv), q, wire).errors,
                    includeStacktraceInErrorResponses(nodeEnv)))

\* does a validated query run the resolver: only `me` has one
RunsResolver(q) == q.root = "me"

(***************************************************************************)
(* State.                                                                  *)
(***************************************************************************)
VARIABLES
  record,        \* RESUME_DATA, the process-wide resume record
  env,           \* process.env.NODE_ENV
  route,         \* the route module: "unloaded", "building", "rebuilding",
                 \* "serving" or "crashed"
  schema,        \* the schema given to ApolloServer: "none", "full", "fallback"
  buildFailed,   \* did buildSchema({resolvers: [MeResolver]}) throw
  resolverCalls, \* number of invocations of MeResolver.me
  wires,         \* the outcomes of the invocations of MeResolver.me, in order
  inflight,      \* the request each connection carries and how far it got
  mounted,       \* is CommandMenu mounted
  listeners,     \* number of keydown listeners registered on document
  passive,       \* the passive effect of CommandMenu that React has yet to
                 \* run: "none", "effect" (after a mount) or "cleanup"
  open,          \* the `open` state of CommandMenu
  effects,       \* the browser calls made by commands, in order
  event,         \* the last UI event dispatched
  shell,         \* what the document shows of each section of the page:
                 \* "unrendered" (nothing) or "content"
  pageShell,     \* what the ErrorBoundary of the layout shows: "none"
                 \* (no document rendered), "content" or "fallback"
  renders,       \* number of invocations of each section renderer
  blocks,        \* the child blocks each section shows
  reloads,       \* number of calls of window.location.reload
  reloading      \* has a reload been asked for that the browser has yet to
                 \* carry out

dataVars == <<record, env>>
apiVars == <<route, schema, buildFailed, resolverCalls, wires, inflight>>
paletteVars == <<mounted, listeners, passive, open, effects, event>>
pageVars == <<shell, pageShell, renders, blocks, reloads, reloading>>
vars == <<record, env, route, schema, buildFailed, resolverCalls,
          wires, inflight,
          mounted, listeners, passive, open, effects, event,
          shell, pageShell, renders, blocks, reloads, reloading>>

Envs == {"production", "development"}
Sections == {"Header", "Work", "Education", "Skills", "Projects"}
\* the connections requests arrive on
RequestIds == 1..MaxCalls
Idle == [stage |-> "idle"]
\* an event records its type, its details and the palette state it met
NoEvent == [type |-> "none", wasOpen |-> FALSE]

Init ==
  /\ record \in Records
  /\ env \in Envs
  /\ route = "unloaded"
  /\ schema = "none"
  /\ buildFailed = FALSE
  /\ resolverCalls = 0
  /\ wires = <<>>
  /\ inflight = [id \in RequestIds |-> Idle]
  /\ mounted = FALSE
  /\ listeners = 0
  /\ passive = "none"
  /\ open = FALSE
  /\ effects = <<>>
  /\ event = NoEvent
  /\ shell = [s \in Sections |-> "unrendered"]
  /\ pageShell = "none"
  /\ renders = [s \in Sections |-> 0]
  /\ blocks = [s \in Sections |-> <<>>]
  /\ reloads = 0
  /\ reloading = FALSE

(***************************************************************************)
(* The GraphQL route (src/app/graphql/route.ts).  The module and its       *)
(* handlers are asynchronous: the evaluation of the module stops at each   *)
(* top-level await; GET and POST return a pending promise, and the         *)
(* handling of a request stops while Apollo Server awaits the context, the *)
(* resolver and the response.                                              *)
(***************************************************************************)
\* MeResolver.me
me == resumeDataToGraphQL(record)

\* The route module starts to evaluate: it calls
\* buildSchema({resolvers: [MeResolver]}) and awaits the result.
LoadRoute ==
  /\ route = "unloaded"
  /\ route' = "building"
  /\ UNCHANGED <<schema, buildFailed, resolverCalls, wires, inflight>>
  /\ UNCHANGED <<dataVars, paletteVars, pageVars>>

\* The awaited build settles (the library decides; both outcomes are kept).
\* On success the server and the handler are made and GET and POST are
\* exported; on a throw the catch block logs the error, calls
\* buildSchema({resolvers: []}) and awaits that.
BuildSettles(buildOk) ==
  /\ route = "building"
  /\ buildFailed' = ~buildOk
  /\ IF buildOk
     THEN schema' = "full" /\ route' = "serving"
     ELSE schema' = schema /\ route' = "rebuilding"
  /\ UNCHANGED <<resolverCalls, wires, inflight>>
  /\ UNCHANGED <<dataVars, paletteVars, pageVars>>

\* The build of the catch block settles.  A throw of it is not caught: the
\* top-level await rejects and the module exports no handler.
FallbackSettles(fallbackOk) ==
  /\ route = "rebuilding"
  /\ IF fallbackOk
     THEN schema' = "fallback" /\ route' = "serving"
     ELSE schema' = schema /\ route' = "crashed"
  /\ UNCHANGED <<buildFailed, resolverCalls, wires, inflight>>
  /\ UNCHANGED <<dataVars, paletteVars, pageVars>>

\* variant: a query of an unknown field passes validation
Validates_lenient(q) ==
  /\ q # MalformedBody
  /\ ~(~introspection(env) /\ q.root \in IntrospectionFields)

\* does the query pass validation
Validates(q) ==
  /\ q # MalformedBody
  /\ ~(~introspection(env) /\ q.root \in IntrospectionFields)
  /\ InvalidPaths(schema, q) = {}

\* can a request arrive on the connection: it carries none, or the last
\* one has been answered
Free(id) == inflight[id].stage \in {"idle", "responded", "unhandled"}

\* handler(request): the request is handed to the handler made by
\* startServerAndCreateNextHandler, which returns a pending promise; the
\* handler first awaits its context
Handler(id, method, q) ==
  /\ route = "serving"
  /\ Free(id)
  /\ resolverCalls < MaxCalls
  /\ inflight' = [inflight EXCEPT ![id] =
       [stage |-> "received", method |-> method, query |-> q]]
  /\ UNCHANGED <<route, schema, buildFailed, resolverCalls, wires>>
  /\ UNCHANGED <<dataVars, paletteVars, pageVars>>

\* GET and POST both pass the request to the Apollo handler
GET(id, q) == Handler(id, "GET", q)
POST(id, q) == Handler(id, "POST", q)

\* Apollo Server processes the request it has received: it reads the body,
\* parses the query and validates it against the schema.  A valid request
\* waits for its execution, a rejected one for its answer.
Validate(id) ==
  /\ inflight[id].stage = "received"
  /\ inflight' = [inflight EXCEPT ![id] =
       [stage |-> IF Validates(inflight[id].query) THEN "validated" ELSE "rejected",
        method |-> inflight[id].method, query |-> inflight[id].query]]
  /\ UNCHANGED <<route, schema, buildFailed, resolverCalls, wires>>
  /\ UNCHANGED <<dataVars, paletteVars, pageVars>>

\* variant: the projection reverses the skills list of the record in place
Resolve_inPlace(id) ==
  /\ inflight[id].stage = "validated"
  /\ RunsResolver(inflight[id].query)
  /\ inflight' = [inflight EXCEPT ![id] =
       [stage |-> "resolved", method |-> inflight[id].method,
        query |-> inflight[id].query, wire |-> me]]
  /\ resolverCalls' = resolverCalls + 1
  /\ wires' = Append(wires, me)
  /\ record' = [record EXCEPT !.skills =
       Arr([i \in 1..Len(@.items) |-> @.items[Len(@.items) + 1 - i]])]
  /\ UNCHANGED <<route, schema, buildFailed, env>>
  /\ UNCHANGED <<paletteVars, pageVars>>

\* the execution of a validated `me` query calls MeResolver.me, which
\* returns the wire record or throws
Resolve(id) ==
  /\ inflight[id].stage = "validated"
  /\ RunsResolver(inflight[id].query)
  /\ inflight' = [inflight EXCEPT ![id] =
       [stage |-> "resolved", method |-> inflight[id].method,
        query |-> inflight[id].query, wire |-> me]]
  /\ resolverCalls' = resolverCalls + 1
  /\ wires' = Append(wires, me)
  /\ UNCHANGED <<route, schema, buildFailed>>
  /\ UNCHANGED <<dataVars, paletteVars, pageVars>>

\* the response of a request is built, from the errors of a rejected
\* request or from the outcome of the resolver, and sent
Respond(id) ==
  /\ \/ inflight[id].stage \in {"rejected", "resolved"}
     \/ /\ inflight[id].stage = "validated"
        /\ ~RunsResolver(inflight[id].query)
  /\ inflight' = [inflight EXCEPT ![id] =
       [stage |-> "responded", method |-> inflight[id].method,
        query |-> inflight[id].query,
        response |-> Serve(schema, env, inflight[id].query,
                       IF inflight[id].stage = "resolved" THEN inflight[id].wire
                       ELSE Undefined)]]
  /\ UNCHANGED <<route, schema, buildFailed, resolverCalls, wires>>
  /\ UNCHANGED <<dataVars, paletteVars, pageVars>>

\* the route module threw while it was evaluated and exported no handler: no
\* code of the route answers the request, which gets neither data nor an
\* errors list
ModuleError == Response(Absent, {})

\* a request to a route whose module failed to load: no handler was
\* exported
Unhandled(id, method, q) ==
  /\ route = "crashed"
  /\ Free(id)
  /\ inflight' = [inflight EXCEPT ![id] =
       [stage |-> "unhandled", method |-> method, query |-> q,
        response |-> ModuleError]]
  /\ UNCHANGED <<route, schema, buildFailed, resolverCalls, wires>>
  /\ UNCHANGED <<dataVars, paletteVars, pageVars>>

\* the queries sent with GET: the meta fields, one valid and one invalid
\* `me` query
GetQueries ==
  { Query(f, {}) : f \in MetaFields } \cup {MalformedBody} \cup
  { Query("me", {<<"name">>, <<"about">>, <<"skills">>}),
    Query("me", {<<"name">>, <<"unknownField">>}) }
PostQueries == Queries \cup {MalformedBody}

\* One client: it sends a request when the last one has been answered.
NextApi ==
  \/ LoadRoute
  \/ \E buildOk \in BOOLEAN : BuildSettles(buildOk)
  \/ \E fallbackOk \in BOOLEAN : FallbackSettles(fallbackOk)
  \/ \E q \in GetQueries : GET(1, q)
  \/ \E q \in PostQueries : POST(1, q)
  \/ Validate(1)
  \/ Resolve(1)
  \/ Respond(1)
  \/ \E method \in Methods : Unhandled(1, method, MalformedBody)

SpecApi == Init /\ [][NextApi]_vars

(***************************************************************************)
(* Concurrent requests: between the steps of one request the event loop    *)
(* may run the steps of another.  MeResolver.me and resumeDataToGraphQL    *)
(* are synchronous: one invocation is one step.                            *)
(***************************************************************************)
ConcurrentQueries ==
  { Query("me", {<<"name">>, <<"about">>, <<"skills">>}),
    Query("me", {<<"work", "company">>, <<"work", "end">>, <<"work", "badges">>}),
    Query("me", {<<"name">>, <<"unknownField">>}),
    Query("__typename", {}) }

NextConcurrent ==
  \/ LoadRoute
  \/ \E buildOk \in BOOLEAN : BuildSettles(buildOk)
  \/ \E fallbackOk \in BOOLEAN : FallbackSettles(fallbackOk)
  \/ \E id \in RequestIds, q \in ConcurrentQueries : POST(id, q)
  \/ \E id \in RequestIds : Validate(id)
  \/ \E id \in RequestIds : Resolve(id)
  \/ \E id \in RequestIds : Respond(id)

SpecConcurrent == Init /\ [][NextConcurrent]_vars

(***************************************************************************)
(* The command palette (src/components/command-menu.tsx) and the print     *)
(* button (src/components/print-button.tsx).                               *)
(***************************************************************************)
Keys == {"k", "p"}
KeyboardEvent(key, metaKey, ctrlKey) ==
  [type |-> "keydown", key |-> key, metaKey |-> metaKey, ctrlKey |-> ctrlKey,
   wasOpen |-> open]

\* the commands of the palette and the browser call each one makes
PrintResume == [call |-> "window.print"]
ScrollToTop == [call |-> "window.scrollTo", top |-> 0, behavior |-> "smooth"]
OpenLink(url) == [call |-> "window.open", url |-> url, target |-> "_blank"]
LinkCommands ==
  <<OpenLink("https://github.com/yourname"),
    OpenLink("https://linkedin.com/in/yourname")>>
Commands == {PrintResume, ScrollToTop} \cup { LinkCommands[i] : i \in DOMAIN LinkCommands }

\* variant: the shortcut only opens (setOpen(true))
down_opens(e, isOpen) ==
  IF e.key = "k" /\ (e.metaKey \/ e.ctrlKey) THEN TRUE ELSE isOpen

\* the keydown listener: the value of `open` after the event
down(e, isOpen) ==
  IF e.key = "k" /\ (e.metaKey \/ e.ctrlKey) THEN ~isOpen ELSE isOpen

\* the value of `open` after every registered listener has handled the event
RECURSIVE Dispatch(_, _, _)
Dispatch(e, n, isOpen) ==
  IF n = 0 THEN isOpen ELSE Dispatch(e, n - 1, down(e, isOpen))

\* setOpen(value) called in an event handler: the update is queued, and
\* `open` keeps its value until the handler has finished
setOpen(value, queue) == Append(queue, value)

\* variant: the updates queued by a handler that throws are dropped
Commit_dropsOnThrow(isOpen, queue, thrown) ==
  IF thrown \/ queue = <<>> THEN isOpen ELSE queue[Len(queue)]

\* the queued updates are applied when the handler has finished, whether it
\* returned or threw
Commit(isOpen, queue, thrown) ==
  IF queue = <<>> THEN isOpen ELSE queue[Len(queue)]

\* variant: the command runs without closing the palette
runCommand_staysOpen(command, calls, thrown) ==
  [queued |-> <<>>,
   during |-> open,
   effects |-> Append(calls, command),
   open |-> Commit(open, <<>>, thrown)]

\* runCommand: setOpen(false), then command().  queued: the updates queued
\* when the command is called; during: the value of `open` the command
\* meets; effects: the calls made; open: the value of `open` afterwards.
\* thrown: does the command throw.
runCommand(command, calls, thrown) ==
  [queued |-> setOpen(FALSE, <<>>),
   during |-> open,
   effects |-> Append(calls, command),
   open |-> Commit(open, setOpen(FALSE, <<>>), thrown)]

\* variant: the cleanup does not remove the listener
FlushPassive_leaksListener(n, pending) ==
  IF pending = "effect" THEN n + 1 ELSE n

\* React runs the pending passive effect of the component: the effect
\* registers the listener (addEventListener), its cleanup removes it
\* (removeEventListener)
FlushPassive(n, pending) ==
  CASE pending = "effect" -> n + 1
    [] pending = "cleanup" -> n - 1
    [] OTHER -> n

\* CommandMenu is mounted: useState(false); the effect is left to run after
\* the commit.  A cleanup that is still pending runs before the new render.
Mount ==
  /\ ~mounted
  /\ mounted' = TRUE
  /\ open' = FALSE
  /\ listeners' = FlushPassive(listeners, passive)
  /\ passive' = "effect"
  /\ event' = [type |-> "mount", wasOpen |-> open]
  /\ UNCHANGED effects
  /\ UNCHANGED <<dataVars, apiVars, pageVars>>

\* CommandMenu is unmounted: its state is dropped; the cleanup of the effect
\* is left to run after the commit.  An effect that is still pending runs
\* before the new render.
Unmount ==
  /\ mounted
  /\ mounted' = FALSE
  /\ open' = FALSE
  /\ listeners' = FlushPassive(listeners, passive)
  /\ passive' = "cleanup"
  /\ event' = [type |-> "unmount", wasOpen |-> open]
  /\ UNCHANGED effects
  /\ UNCHANGED <<dataVars, apiVars, pageVars>>

\* React runs the pending passive effect or cleanup after the commit
Effect ==
  /\ passive # "none"
  /\ listeners' = FlushPassive(listeners, passive)
  /\ passive' = "none"
  /\ event' = [type |-> passive, wasOpen |-> open]
  /\ UNCHANGED <<mounted, open, effects>>
  /\ UNCHANGED <<dataVars, apiVars, pageVars>>

\* a render caused by a state update runs the pending passive effect first;
\* an update that leaves `open` as it is causes no render
Rerender(isOpen) ==
  /\ listeners' = IF isOpen # open THEN FlushPassive(listeners, passive) ELSE listeners
  /\ passive' = IF isOpen # open THEN "none" ELSE passive

\* a key is pressed anywhere in the document: the registered listeners run;
\* the state update of a listener whose component is unmounted is dropped
KeyDown(key, metaKey, ctrlKey) ==
  /\ event' = KeyboardEvent(key, metaKey, ctrlKey)
  /\ open' = IF mounted
             THEN Dispatch(KeyboardEvent(key, metaKey, ctrlKey), listeners, open)
             ELSE open
  /\ Rerender(open')
  /\ UNCHANGED <<mounted, effects>>
  /\ UNCHANGED <<dataVars, apiVars, pageVars>>

\* variant: the trigger button toggles
ClickTrigger_toggles ==
  /\ mounted
  /\ event' = [type |-> "click", wasOpen |-> open]
  /\ open' = ~open
  /\ Rerender(open')
  /\ UNCHANGED <<mounted, effects>>
  /\ UNCHANGED <<dataVars, apiVars, pageVars>>

\* the trigger button: onClick={() => setOpen(true)}
ClickTrigger ==
  /\ mounted
  /\ event' = [type |-> "click", wasOpen |-> open]
  /\ open' = TRUE
  /\ Rerender(open')
  /\ UNCHANGED <<mounted, effects>>
  /\ UNCHANGED <<dataVars, apiVars, pageVars>>

\* an item of the open dialog is selected: onSelect={() => runCommand(...)}
Select(command, thrown) ==
  /\ mounted /\ open
  /\ Len(effects) < MaxCalls
  /\ event' = [type |-> "select", command |-> command, wasOpen |-> open,
               thrown |-> thrown,
               queued |-> runCommand(command, effects, thrown).queued,
               during |-> runCommand(command, effects, thrown).during]
  /\ open' = runCommand(command, effects, thrown).open
  /\ effects' = runCommand(command, effects, thrown).effects
  /\ Rerender(open')
  /\ UNCHANGED mounted
  /\ UNCHANGED <<dataVars, apiVars, pageVars>>

\* variant: the requested value is inverted
onOpenChange_inverted(value, calls) == [open |-> ~value, effects |-> calls]

\* the dialog asks to be closed (escape key, click outside): onOpenChange={setOpen}
onOpenChange(value, calls) == [open |-> value, effects |-> calls]
Dismiss(how) ==
  /\ mounted /\ open
  /\ event' = [type |-> "dismiss", how |-> how, wasOpen |-> open]
  /\ open' = onOpenChange(FALSE, effects).open
  /\ effects' = onOpenChange(FALSE, effects).effects
  /\ Rerender(open')
  /\ UNCHANGED mounted
  /\ UNCHANGED <<dataVars, apiVars, pageVars>>

\* PrintButton: onClick={handlePrint}, window.print(); the button is in the
\* same document, is not part of the palette and leaves it as it is
handlePrint ==
  /\ Len(effects) < MaxCalls
  /\ event' = [type |-> "print-button", wasOpen |-> open]
  /\ effects' = Append(effects, PrintResume)
  /\ UNCHANGED <<mounted, listeners, passive, open>>
  /\ UNCHANGED <<dataVars, apiVars, pageVars>>

NextPalette ==
  \/ Mount
  \/ Unmount
  \/ Effect
  \/ \E key \in Keys, metaKey \in BOOLEAN, ctrlKey \in BOOLEAN :
       KeyDown(key, metaKey, ctrlKey)
  \/ ClickTrigger
  \/ \E command \in Commands, thrown \in BOOLEAN : Select(command, thrown)
  \/ \E how \in {"escape", "outside"} : Dismiss(how)
  \/ handlePrint

\* the palette reads the name, the website and the social links of the record
PaletteRecords ==
  Files \cup { ResumeData(RESUME_DATA, 0, n) : n \in 0..MaxLen }
InitPalette == Init /\ record \in PaletteRecords

SpecPalette == InitPalette /\ [][NextPalette]_vars

(***************************************************************************)
(* The section renderers of the page (src/app/page.tsx): each list is      *)
(* mapped to one block per entry.                                          *)
(***************************************************************************)
\* what React puts in the document for a child: strings and elements are
\* rendered, null, undefined and booleans render nothing
Renders(v) == v.kind \notin {"null", "undefined", "boolean"}
Children(vs) == SelectSeq(vs, Renders)

\* variant: the end of the period is parsed as a date before it is shown
Period_parsed(start, end) ==
  Children(<<start, Str(" - "),
             IF end = Str("Present") THEN Str("Invalid Date") ELSE end>>)

\* {start} - {end}
Period(start, end) == Children(<<start, Str(" - "), end>>)

\* <Card key={work.company}> of the work section
WorkCard(work) ==
  [key |-> work.company,
   heading |-> work.company,
   href |-> IF Truthy(Prop(work, "link")) THEN work.link ELSE Undefined,
   period |-> Period(work.start, work.end),
   title |-> work.title,
   content |-> Children(<<work.description>>),
   badges |-> IF Truthy(Prop(work, "badges")) THEN work.badges.items ELSE <<>>]
\* <Card key={education.school}> of the education section
EducationCard(education) ==
  [key |-> education.school,
   heading |-> education.school,
   href |-> IF Truthy(Prop(education, "link")) THEN education.link ELSE Undefined,
   period |-> Period(education.start, education.end),
   content |-> Children(<<education.degree>>)]
\* <Badge key={skill}> of the skills section
SkillBadge(skill) == [key |-> skill, content |-> Children(<<skill>>)]
\* <Card key={project.title}> of the projects section;
\* project.technologies.map throws when the project has no such list
ProjectCard(project) ==
  IF ~IsArray(Prop(project, "technologies"))
  THEN TypeError("Cannot read properties of undefined (reading 'map')")
  ELSE [key |-> project.title,
        heading |-> project.title,
        href |-> IF Truthy(Prop(project, "href")) THEN project.href ELSE Undefined,
        active |-> Truthy(Prop(project, "active")),
        dates |-> Children(<<Prop(project, "dates")>>),
        content |-> Children(<<project.description>>),
        badges |-> project.technologies.items]
\* the header with the about paragraph: one block
HeaderBlock(data) ==
  [key |-> data.name,
   heading |-> data.name,
   about |-> data.about,
   href |-> data.locationLink,
   location |-> data.location,
   email |-> IF Truthy(data.contact.email) THEN data.contact.email ELSE Undefined,
   tel |-> IF Truthy(data.contact.tel) THEN data.contact.tel ELSE Undefined,
   social |-> [i \in 1..Len(data.contact.social.items) |->
                 [key |-> data.contact.social.items[i].name,
                  href |-> data.contact.social.items[i].url,
                  content |-> Children(<<data.contact.social.items[i].icon>>)]],
   avatar |-> data.avatarUrl,
   content |-> Children(<<data.summary>>)]

\* RESUME_DATA.work.map(...)
WorkSection(data) ==
  [i \in 1..Len(data.work.items) |-> WorkCard(data.work.items[i])]
\* RESUME_DATA.education.map(...)
EducationSection(data) ==
  [i \in 1..Len(data.education.items) |-> EducationCard(data.education.items[i])]
\* RESUME_DATA.skills.map(...)
SkillsSection(data) ==
  [i \in 1..Len(data.skills.items) |-> SkillBadge(data.skills.items[i])]
\* RESUME_DATA.projects.map(...)
ProjectsSection(data) ==
  [i \in 1..Len(data.projects.items) |-> ProjectCard(data.projects.items[i])]

\* the blocks a section renderer returns
SectionBlocks(s, data) ==
  CASE s = "Header" -> <<HeaderBlock(data)>>
    [] s = "Work" -> WorkSection(data)
    [] s = "Education" -> EducationSection(data)
    [] s = "Skills" -> SkillsSection(data)
    [] s = "Projects" -> ProjectsSection(data)

\* does the renderer of the section throw on the data: the callback of the
\* projects map throws on a project without technologies
RendererThrows(s, data) ==
  /\ s = "Projects"
  /\ \E i \in 1..Len(data.projects.items) : IsThrown(ProjectCard(data.projects.items[i]))

(***************************************************************************)
(* The page and its error boundary (src/app/page.tsx, src/app/layout.tsx,  *)
(* src/components/error-boundary.tsx).  Page is one function that holds    *)
(* every section; the only boundary around it is the ErrorBoundary of the  *)
(* layout.                                                                 *)
(***************************************************************************)
\* the sections in the order Page evaluates them
SectionOrder == <<"Header", "Work", "Education", "Skills", "Projects">>
Position(s) == CHOOSE i \in DOMAIN SectionOrder : SectionOrder[i] = s

\* does the call of Page throw on the data: a throw in any section ends it
PageThrows(data) == \E s \in Sections : RendererThrows(s, data)

\* is the renderer of the section invoked by the call of Page: the sections
\* are evaluated in order, and none after the first that throws
Invoked(s, data) ==
  \A t \in Sections : RendererThrows(t, data) => Position(s) <= Position(t)

\* Page(): the blocks of every section, or the error thrown while the
\* element is built
Page(data) ==
  IF PageThrows(data)
  THEN TypeError("Cannot read properties of undefined (reading 'map')")
  ELSE [s \in Sections |-> SectionBlocks(s, data)]

\* ErrorBoundary of the layout: it shows its children, or ErrorFallback when
\* a child threw while it was rendered
ErrorBoundary(data) == IF PageThrows(data) THEN "fallback" ELSE "content"

\* the document shows the content of every section
Rendered == \A s \in Sections : shell[s] = "content"
\* a document has been rendered, with the page or with the fallback
Loaded == pageShell # "none"

\* the render pass of the page in a fresh document (no section suspends):
\* when Page throws the boundary shows its fallback and no section of the
\* page is in the document
RenderPage ==
  /\ pageShell' = ErrorBoundary(record)
  /\ shell' = [s \in Sections |->
                 IF PageThrows(record) THEN "unrendered" ELSE "content"]
  /\ blocks' = [s \in Sections |->
                  IF PageThrows(record) THEN <<>> ELSE Page(record)[s]]
  /\ renders' = [s \in Sections |->
                   IF Invoked(s, record) THEN renders[s] + 1 ELSE renders[s]]

\* variant: the work section reverses RESUME_DATA.work in place before mapping
LoadPage_inPlace ==
  /\ pageShell = "none"
  /\ RenderPage
  /\ event' = [type |-> "load", wasOpen |-> open]
  /\ record' = [record EXCEPT !.work =
       Arr([i \in 1..Len(@.items) |-> @.items[Len(@.items) + 1 - i]])]
  /\ UNCHANGED <<reloads, reloading, env>>
  /\ UNCHANGED <<mounted, listeners, passive, open, effects>>
  /\ UNCHANGED apiVars

\* the page is requested and rendered; the command palette is not part of
\* the render pass (it is loaded and mounted afterwards)
LoadPage ==
  /\ pageShell = "none"
  /\ RenderPage
  /\ event' = [type |-> "load", wasOpen |-> open]
  /\ UNCHANGED <<reloads, reloading>>
  /\ UNCHANGED <<mounted, listeners, passive, open, effects>>
  /\ UNCHANGED <<dataVars, apiVars>>

\* onReset of ErrorBoundary: window.location.reload().  The call returns at
\* once; the document stays as it is until the browser replaces it.
onReset ==
  /\ reloads' = reloads + 1
  /\ reloading' = TRUE

\* the "Try again" button of ErrorFallback: onClick={resetErrorBoundary},
\* which calls onReset.  The button exists while the boundary shows its
\* fallback, and can be clicked again before the document is replaced.
Retry ==
  /\ pageShell = "fallback"
  /\ reloads < MaxCalls
  /\ onReset
  /\ event' = [type |-> "retry", wasOpen |-> open]
  /\ UNCHANGED <<shell, pageShell, renders, blocks>>
  /\ UNCHANGED <<mounted, listeners, passive, open, effects>>
  /\ UNCHANGED <<dataVars, apiVars>>

\* the browser carries out the reload: the document is discarded with
\* everything mounted in it and every listener registered on it; the page
\* is then requested again
Unload ==
  /\ reloading
  /\ reloading' = FALSE
  /\ shell' = [s \in Sections |-> "unrendered"]
  /\ blocks' = [s \in Sections |-> <<>>]
  /\ pageShell' = "none"
  /\ mounted' = FALSE
  /\ listeners' = 0
  /\ passive' = "none"
  /\ open' = FALSE
  /\ event' = [type |-> "unload", wasOpen |-> open]
  /\ UNCHANGED <<renders, reloads, effects>>
  /\ UNCHANGED <<dataVars, apiVars>>

NextPage ==
  \/ LoadPage
  \/ Retry
  \/ Unload

SpecPage == Init /\ [][NextPage]_vars

(***************************************************************************)
(* The whole runtime: the page, the API and the palette in one process     *)
(* image, each driven by a few of its inputs.  The palette is mounted in   *)
(* the document of a rendered page: everything the application renders is  *)
(* a child of the ErrorBoundary of the layout.                             *)
(***************************************************************************)
RuntimeQueries ==
  { Query("me", {<<"work", "company">>, <<"work", "end">>, <<"work", "badges">>}),
    Query("me", {<<"skills">>}) }
RuntimeCommands == {PrintResume, LinkCommands[1]}
NextRuntime ==
  \/ LoadRoute
  \/ BuildSettles(TRUE)
  \/ \E q \in RuntimeQueries : POST(1, q)
  \/ Validate(1)
  \/ Resolve(1)
  \/ Respond(1)
  \/ LoadPage
  \/ Rendered /\ Mount
  \/ Effect
  \/ KeyDown("k", TRUE, FALSE)
  \/ ClickTrigger
  \/ \E command \in RuntimeCommands : Select(command, FALSE)
  \/ Dismiss("escape")
  \/ Rendered /\ handlePrint
  \/ Retry
  \/ Unload

\* the records of the runtime: the data files as they are
RuntimeRecords == Files
InitRuntime == Init /\ record \in RuntimeRecords

SpecRuntime == InitRuntime /\ [][NextRuntime]_vars

(***************************************************************************)
(* Properties.                                                             *)
(***************************************************************************)
\* the modifier+K shortcut
IsShortcut(e) ==
  e.type = "keydown" /\ e.key = "k" /\ (e.metaKey \/ e.ctrlKey)
IsSelect(e, command) == e.type = "select" /\ e.command = command

\* C1 (as stated): pressing the shortcut while the palette is Open leaves it
\* Open.
C1_ShortcutWhileOpenStaysOpen ==
  [][(mounted /\ open /\ IsShortcut(event')) => open']_vars

\* C1 (amended): while the palette is Open, opening it again with the trigger
\* button leaves it Open and changes nothing else, and no second listener or
\* overlay appears; the shortcut pressed while Open closes it.
C1_OpenWhileOpenIsNoOp ==
  [][/\ (mounted /\ open /\ event'.type = "click") =>
          (open' /\ UNCHANGED <<mounted, listeners, passive, effects>>)
     /\ (mounted /\ open /\ IsShortcut(event')) =>
          (~open' /\ UNCHANGED <<mounted, listeners, passive, effects>>)]_vars
\* the trigger button was pressed while the palette was open
C1_Witness == mounted /\ open /\ event.type = "click" /\ event.wasOpen

\* C2 (as stated): the shortcut toggles the mounted palette from any state:
\* pressed while Closed the palette becomes Open, pressed while Open it
\* becomes Closed.
C2_ShortcutTogglesFromAnyState ==
  [][(mounted /\ IsShortcut(event')) => (open' = ~open)]_vars

\* C2 (amended): pressed while Open the shortcut closes the palette; pressed
\* while Closed it opens the palette once the effect of the mounted palette
\* has registered the keydown listener, and a press before that leaves the
\* palette Closed.
C2_ShortcutToggles ==
  [][(mounted /\ IsShortcut(event')) =>
       /\ open => ~open'
       /\ (~open /\ listeners > 0) => open'
       /\ (~open /\ listeners = 0) => ~open']_vars
\* the shortcut has just closed the palette
C2_Witness == mounted /\ IsShortcut(event) /\ event.wasOpen /\ ~open

\* C3: selecting the print command while Open closes the palette, calls
\* window.print exactly once and changes nothing else.
C3_PrintClosesAndPrintsOnce ==
  [][IsSelect(event', PrintResume) =>
       /\ open /\ ~open'
       /\ effects' = Append(effects, PrintResume)
       /\ UNCHANGED <<mounted, listeners, passive>>
       /\ UNCHANGED <<dataVars, apiVars, pageVars>>]_vars
C3_Witness ==
  IsSelect(event, PrintResume) /\ event.wasOpen /\ ~open /\ effects = <<PrintResume>>

\* C4: a dismiss (escape, click outside) while Open closes the palette and
\* runs no command.
C4_DismissClosesWithoutAction ==
  [][(event'.type = "dismiss") =>
       /\ open /\ ~open'
       /\ effects' = effects
       /\ UNCHANGED <<mounted, listeners, passive>>
       /\ UNCHANGED <<dataVars, apiVars, pageVars>>]_vars
C4_Witness == event.type = "dismiss" /\ event.wasOpen /\ ~open /\ effects = <<>>

\* C5 (as stated): after a render pass, exactly the sections whose renderer
\* throws show a fallback, every other section shows its content and the
\* page-level boundary shows no fallback.
C5_FaultStaysInSection ==
  Loaded =>
    /\ \A s \in Sections :
         shell[s] = IF RendererThrows(s, record) THEN "fallback" ELSE "content"
    /\ pageShell = "content"

\* C6 (as stated): the retry control re-invokes the renderer of the failed
\* section only: the page is not reloaded, and the other sections are not
\* rendered again and show what they showed.
C6_RetryRerendersSectionOnly ==
  [][(event'.type = "retry") =>
       /\ reloads' = reloads
       /\ ~reloading'
       /\ \A s \in Sections :
            /\ renders'[s] = renders[s] + (IF RendererThrows(s, record) THEN 1 ELSE 0)
            /\ ~RendererThrows(s, record) => shell'[s] = shell[s]]_vars

\* the request of the connection has been answered by the handler
Answered(id) == inflight[id].stage = "responded"
\* the fixed response of the degraded state
Unavailable == [error |-> "GraphQL server initialization failed", status |-> 500]

\* C7 (as stated): after a failed schema build the process has not crashed
\* and every request is answered with the fixed unavailable response; no
\* request changes whether the build has failed.
C7_SchemaFailedServesFixedResponse ==
  /\ buildFailed => route # "crashed"
  /\ \A id \in RequestIds :
       (buildFailed /\ inflight[id].stage \in {"responded", "unhandled"}) =>
         inflight[id].response = Unavailable

\* a `me` query that selects only fields of the schema
IsValidMeQuery(q) == q.root = "me" /\ q.selection \subseteq MeFields

\* C8 (as stated): in the ready state a `me` query over fields of the schema
\* is answered with the selected fields of the projected record and no
\* errors.
C8_ValidQuerySucceeds ==
  \A id \in RequestIds :
    (route = "serving" /\ ~buildFailed /\ Answered(id)
       /\ IsValidMeQuery(inflight[id].query)) =>
      /\ inflight[id].response.errors = {}
      /\ inflight[id].response.data =
           Data("me", [p \in inflight[id].query.selection |->
                         ToJson(Get(resumeDataToGraphQL(record), p))])

\* a query that selects a field the schema does not have
SelectsUnknownField(q) == q.root = "me" /\ ~(q.selection \subseteq MeFields)

\* C9: a query that selects an unknown field is answered with errors of code
\* GRAPHQL_VALIDATION_FAILED and no data, and the resolver is not run: the
\* request is rejected by validation and answered from there, and never
\* waits for or passes the resolver.
C9_UnknownFieldFailsValidation ==
  /\ [](\A id \in RequestIds :
          (inflight[id].stage \in {"validated", "resolved"}) =>
            ~SelectsUnknownField(inflight[id].query))
  /\ [][\A id \in RequestIds :
          (/\ inflight'[id] # inflight[id]
           /\ Answered(id)'
           /\ SelectsUnknownField(inflight'[id].query)) =>
            /\ inflight'[id].response.data = Absent
            /\ inflight'[id].response.errors # {}
            /\ \A e \in inflight'[id].response.errors :
                 e.code = "GRAPHQL_VALIDATION_FAILED"
            /\ inflight[id].stage = "rejected"
            /\ resolverCalls' = resolverCalls
            /\ wires' = wires]_vars
\* an unknown field was queried after the resolver had answered a valid query
C9_Witness ==
  /\ schema = "full"
  /\ Answered(1)
  /\ SelectsUnknownField(inflight[1].query)
  /\ inflight[1].response.data = Absent
  /\ resolverCalls = 1

\* the scalar values of a wire record
WireLeaves(wire) == UNION { Leaves(wire, p) : p \in MeFields }
IsRich(v) ==
  \/ v.kind = "element"
  \/ IsArray(v) /\ \E i \in 1..Len(v.items) : v.items[i].kind = "element"

\* C10 (as stated): no scalar field of the wire record of any resume record
\* holds rich content.
C10_NoRichContentCrossesApi ==
  \A v \in WireLeaves(resumeDataToGraphQL(record)) : ~IsRich(v)

\* the work entries of a record
WorkEntries(data) == { data.work.items[i] : i \in 1..Len(data.work.items) }

\* C11 (as stated): the end of every work entry of the resume record is a
\* string, never null, and its projection satisfies the non-null end field of
\* the schema.
C11_WorkEndIsString ==
  \A w \in WorkEntries(record) :
    /\ IsString(w.end)
    /\ Serializable(WorkToGraphQL(w).end, MeSchema[<<"work", "end">>])

\* the data of a response holds the selected fields of `me`
HasMeData(resp) == resp.data.kind = "object" /\ resp.data.root = "me"

\* C12 (as stated): every work entry returned by the API has a link that is
\* a string, never null.
C12_ReturnedWorkLinkIsString ==
  \A id \in RequestIds :
    (/\ Answered(id)
     /\ HasMeData(inflight[id].response)
     /\ <<"work", "link">> \in inflight[id].query.selection) =>
      \A i \in 1..Len(inflight[id].response.data.fields[<<"work", "link">>].items) :
        IsString(inflight[id].response.data.fields[<<"work", "link">>].items[i])

\* the list of a project: techStack in the data files, technologies in the
\* guide's data and in the wire record
ProjectList(p) ==
  IF "techStack" \in DOMAIN p THEN p.techStack ELSE Prop(p, "technologies")
\* the list fields of a resume record or of the outcome of the projection
\* (an error thrown holds no list)
ListValues(d) ==
  IF IsThrown(d) THEN {d}
  ELSE {d.education, d.work, d.skills, d.projects, d.contact.social}
         \cup Leaves(d, <<"work", "badges">>)
         \cup { ProjectList(d.projects.items[i]) : i \in 1..Len(d.projects.items) }

\* C13 (as stated): every list field of the resume record and of its wire
\* projection is an array, never null or undefined.
C13_ListFieldsAreArrays ==
  \A v \in ListValues(record) \cup ListValues(resumeDataToGraphQL(record)) :
    IsArray(v)

\* the list a section renders
ListOf(s, data) ==
  CASE s = "Work" -> data.work.items
    [] s = "Education" -> data.education.items
    [] s = "Skills" -> data.skills.items
    [] s = "Projects" -> data.projects.items
ListSections == {"Work", "Education", "Skills", "Projects"}
\* the block shows the entry: it carries the entry's name and content
Shows(s, block, entry) ==
  CASE s = "Work" ->
         /\ block.heading = entry.company /\ block.title = entry.title
         /\ block.content = Children(<<entry.description>>)
    [] s = "Education" ->
         /\ block.heading = entry.school
         /\ block.content = Children(<<entry.degree>>)
    [] s = "Skills" -> block.content = <<entry>>
    [] s = "Projects" ->
         /\ block.heading = entry.title
         /\ block.content = Children(<<entry.description>>)

\* C14 (as stated): in a rendered document every list section shows its
\* content with exactly one block per entry of its list, the i-th block
\* showing the i-th entry; an empty list gives zero blocks and no error.
C14_OneBlockPerEntryInOrder ==
  \A s \in ListSections :
    Loaded =>
      /\ shell[s] = "content"
      /\ Len(blocks[s]) = Len(ListOf(s, record))
      /\ \A i \in 1..Len(blocks[s]) : Shows(s, blocks[s][i], ListOf(s, record)[i])

\* C15: the block of a work entry whose end is "Present" shows the literal
\* text "Present" as the end of its period, after the start and the dash.
C15_PresentShownLiterally ==
  Rendered =>
    \A i \in 1..Len(record.work.items) :
      record.work.items[i].end = Str("Present") =>
        blocks["Work"][i].period =
          <<record.work.items[i].start, Str(" - "), Str("Present")>>
\* the page shows the current role with the period 2021 - Present
C15_Witness ==
  /\ Rendered
  /\ Len(blocks["Work"]) > 0
  /\ record.work.items[1].end = Str("Present")
  /\ blocks["Work"][1].period = <<Str("2021"), Str(" - "), Str("Present")>>

IsPlain(data) ==
  IsString(data.summary) /\ \A w \in WorkEntries(data) : IsString(w.description)

\* C17 (as stated): for a record whose summary and work descriptions are
\* plain strings the projection returns these fields unchanged, and the API
\* returns them unchanged when they are selected.
C17_PlainTextUnchanged ==
  IsPlain(record) =>
    /\ IsObject(resumeDataToGraphQL(record))
    /\ resumeDataToGraphQL(record).summary = record.summary
    /\ \A i \in 1..Len(record.work.items) :
         resumeDataToGraphQL(record).work.items[i].description =
           record.work.items[i].description
    /\ \A id \in RequestIds :
         (/\ Answered(id)
          /\ inflight[id].query.selection = {<<"summary">>, <<"work", "description">>}) =>
           /\ HasMeData(inflight[id].response)
           /\ inflight[id].response.data.fields[<<"summary">>] = record.summary
           /\ \A i \in 1..Len(record.work.items) :
                inflight[id].response.data.fields[<<"work", "description">>].items[i] =
                  record.work.items[i].description

\* the response answers an introspection query with schema information
HasSchemaInfo(resp) ==
  resp.data.kind = "object" /\ resp.data.root \in IntrospectionFields

\* C20: in a production build an introspection query is rejected and no
\* response holds schema information; schema information is returned only
\* outside production.
C20_IntrospectionOnlyOutsideProduction ==
  \A id \in RequestIds :
    Answered(id) =>
      /\ HasSchemaInfo(inflight[id].response) => env # "production"
      /\ (env = "production" /\ inflight[id].query.root \in IntrospectionFields) =>
           /\ inflight[id].response.data = Absent
           /\ inflight[id].response.errors # {}
           /\ \A e \in inflight[id].response.errors :
                e.code = "GRAPHQL_VALIDATION_FAILED"
\* a production build has rejected a __schema query
C20_Witness ==
  /\ env = "production" /\ route = "serving" /\ schema = "full"
  /\ Answered(1) /\ inflight[1].query.root = "__schema"
  /\ inflight[1].response.data = Absent /\ inflight[1].response.errors # {}

\* C19: under every interleaving of concurrent requests each resolver
\* invocation has the outcome of the projection of the unchanged resume
\* record (the complete wire record), all invocations have the same
\* outcome, and every response is the one a request handled alone would get.
C19_ConcurrentInvocationsAgree ==
  \A a \in RequestIds :
    /\ inflight[a].stage = "resolved" =>
         /\ inflight[a].wire = resumeDataToGraphQL(record)
         /\ \A b \in RequestIds :
              inflight[b].stage = "resolved" => inflight[b].wire = inflight[a].wire
    /\ inflight[a].stage = "responded" =>
         inflight[a].response =
           Serve(schema, env, inflight[a].query, resumeDataToGraphQL(record))
\* two requests with different queries are in flight, both after their
\* resolver has returned the wire record and before their response
C19_Witness ==
  /\ inflight[1].stage = "resolved" /\ inflight[2].stage = "resolved"
  /\ inflight[1].query # inflight[2].query
  /\ IsObject(inflight[1].wire)
  /\ inflight[1].wire = inflight[2].wire
  /\ Len(record.skills.items) = 2

\* C18: no step of the runtime (page render, request, resolver invocation,
\* projection, palette action) changes the resume record.
C18_RecordNeverMutated == [][record' = record]_vars
\* the page has been rendered, the resolver has run twice and a palette
\* command has run, on a record with two different work entries
C18_Witness ==
  /\ Rendered /\ resolverCalls = 2 /\ Len(effects) > 0
  /\ Len(record.work.items) = 2 /\ record.work.items[1] # record.work.items[2]
  /\ Len(blocks["Work"]) = 2
  /\ IsObject(wires[1])
  /\ wires[1].work = resumeDataToGraphQL(record).work

\* C21 (as stated): in a production build every error of a response has the
\* fixed message "Internal server error" and no stack trace; in a
\* development build no error has the fixed message.
C21_ProductionMasksErrorMessages ==
  \A id \in RequestIds :
    (Answered(id) /\ inflight[id].response.errors # {}) =>
      \A e \in inflight[id].response.errors :
        IF env = "production"
        THEN e.message = "Internal server error" /\ ~e.stacktrace
        ELSE e.message # "Internal server error"

\* the response reports a failure
Failed(resp) == resp.data \in {Absent, Null}
KnownCodes == {"GRAPHQL_VALIDATION_FAILED", "BAD_REQUEST", "INTERNAL_SERVER_ERROR"}
\* the errors of the response are a non-empty list of entries with a message
\* and a known code
HasCodedErrors(resp) ==
  /\ resp.errors # {}
  /\ \A e \in resp.errors : e.message # "" /\ e.code \in KnownCodes

\* C22 (as stated): every failed request, in the ready state and after a
\* failed schema build, is answered with a non-empty errors list whose
\* entries have a message and a known code.
C22_EveryFailureHasCodedErrors ==
  \A id \in RequestIds :
    (inflight[id].stage \in {"responded", "unhandled"}
       /\ Failed(inflight[id].response)) =>
      HasCodedErrors(inflight[id].response)

\* the links the documentation derives from the record: the personal
\* website, then one per contact.social entry
getCommandMenuLinks(data) ==
  <<[url |-> data.personalWebsiteUrl, title |-> Str("Website")]>> \o
  [i \in 1..Len(data.contact.social.items) |->
     [url |-> data.contact.social.items[i].url,
      title |-> data.contact.social.items[i].name]]

\* C23 (as stated): the link commands of the palette are the links derived
\* from the resume record, in order, and a selected link command has opened
\* its url in a new browsing context and closed the palette.
C23_LinkCommandsDerivedFromRecord ==
  /\ LinkCommands =
       [i \in 1..Len(getCommandMenuLinks(record)) |->
          OpenLink(getCommandMenuLinks(record)[i].url.text)]
  /\ (event.type = "select" /\ event.command.call = "window.open") =>
       /\ ~open
       /\ effects[Len(effects)] = event.command
       /\ event.command.target = "_blank"

\* the year a start value names
StartYears ==
  ("2024" :> 2024) @@ ("2022" :> 2022) @@ ("2021" :> 2021) @@ ("2020" :> 2020) @@
  ("2019" :> 2019) @@ ("2016" :> 2016) @@
  ("2015" :> 2015) @@ ("2014" :> 2014) @@ ("2012" :> 2012) @@ ("2011" :> 2011) @@
  ("1997" :> 1997)
Year(v) == StartYears[v.text]
\* the start years of a list run from newest to oldest
NewestFirst(starts) ==
  \A i \in 1..(Len(starts.items) - 1) :
    Year(starts.items[i]) >= Year(starts.items[i + 1])

\* C24: the work and education lists returned by the API are newest first:
\* the start year of an entry is not less than the start year of the entry
\* after it.
C24_ListsNewestFirst ==
  \A id \in RequestIds :
    (Answered(id) /\ HasMeData(inflight[id].response)) =>
      \A p \in {<<"work", "start">>, <<"education", "start">>} :
        p \in DOMAIN inflight[id].response.data.fields =>
          NewestFirst(inflight[id].response.data.fields[p])
\* the API has returned the start years of two work entries of different years
C24_Witness ==
  /\ Answered(1) /\ HasMeData(inflight[1].response)
  /\ inflight[1].query.selection = {<<"work", "start">>}
  /\ Len(inflight[1].response.data.fields[<<"work", "start">>].items) = 2
  /\ Year(inflight[1].response.data.fields[<<"work", "start">>].items[1]) >
       Year(inflight[1].response.data.fields[<<"work", "start">>].items[2])

\* C25 (as stated): when an action is selected the palette is Closed before
\* the action runs: the action does not execute while the palette is Open,
\* and the palette ends Closed even if the action throws.
C25_ClosedBeforeActionRuns ==
  event.type = "select" => (~event.during /\ ~open)

\* C25 (amended): when an action is selected the close is requested before
\* the action is called, the action executes while the palette is still
\* Open, and the palette is Closed when the handler has finished, also when
\* the action throws.
C25_CloseRequestedBeforeActionRuns ==
  event.type = "select" =>
    /\ event.queued = <<FALSE>>
    /\ event.during
    /\ effects[Len(effects)] = event.command
    /\ ~open
\* a selected action has thrown
C25_Witness ==
  /\ event.type = "select" /\ event.thrown
  /\ event.queued = <<FALSE>> /\ ~open /\ mounted

\* one press of the shortcut toggles a mounted palette at most once and
\* changes nothing when no palette is mounted
ShortcutActsOnce ==
  [][IsShortcut(event') =>
       /\ open' = (IF mounted /\ listeners = 1 THEN ~open ELSE open)
       /\ UNCHANGED <<mounted, listeners, passive, effects>>
       /\ UNCHANGED <<dataVars, apiVars, pageVars>>]_vars

\* C26 (as stated): through every sequence of mounts and unmounts the number
\* of registered keydown listeners equals the number of mounted palettes (0
\* or 1); one press of the shortcut changes the state at most once, and
\* after unmount it changes nothing.
C26_ListenersEqualMountedPalettes ==
  /\ [](listeners = IF mounted THEN 1 ELSE 0)
  /\ ShortcutActsOnce

\* C26 (amended): through every sequence of mounts and unmounts there is at
\* most one registered keydown listener, and once React has run the pending
\* effect or cleanup their number is the number of mounted palettes (0 or
\* 1); one press of the shortcut toggles a mounted palette at most once, and
\* changes nothing when no palette is mounted.
C26_OneListenerPerMountedPalette ==
  /\ [](listeners \in {0, 1})
  /\ [](passive = "none" => listeners = IF mounted THEN 1 ELSE 0)
  /\ ShortcutActsOnce
\* the shortcut has been pressed after a palette that ran two commands was
\* unmounted and its listener removed
C26_Witness ==
  /\ ~mounted /\ listeners = 0 /\ passive = "none" /\ Len(effects) = 2
  /\ IsShortcut(event) /\ ~event.wasOpen /\ ~open

\* no value occurs twice in the sequence
Distinct(xs) == \A i, j \in DOMAIN xs : i # j => xs[i] # xs[j]

\* the key the renderer of a list section gives to the block of an entry
KeyOf(s, entry) ==
  CASE s = "Work" -> entry.company
    [] s = "Education" -> entry.school
    [] s = "Skills" -> entry
    [] s = "Projects" -> entry.title

\* C27 (as stated): the keys that the renderer of each list section gives
\* to the blocks of its list are pairwise distinct: no two work entries
\* share a company, no two education entries a school, no two projects a
\* title, and no skill or badge is repeated within its list.
C27_KeysPairwiseDistinct ==
  \A s \in ListSections :
    renders[s] > 0 =>
      /\ Distinct([i \in DOMAIN ListOf(s, record) |-> KeyOf(s, ListOf(s, record)[i])])
      /\ Distinct([i \in DOMAIN blocks[s] |-> blocks[s][i].key])
      /\ \A i \in DOMAIN blocks[s] :
           "badges" \in DOMAIN blocks[s][i] => Distinct(blocks[s][i].badges)
      /\ s = "Work" =>
           \A i \in DOMAIN record.work.items :
             IsArray(Prop(record.work.items[i], "badges")) =>
               Distinct(record.work.items[i].badges.items)

\* reactToString of the guide: a string is returned as it is, an array is
\* mapped and joined; the guide elides the rest of the body ("// ..."), so
\* the function as printed returns nothing (undefined) for any other value
RECURSIVE reactToString(_)
\* content.map(reactToString).join(""): join takes an undefined element as
\* the empty string
RECURSIVE Join(_)
Join(nodes) ==
  IF nodes = <<>> THEN ""
  ELSE (IF IsString(reactToString(Head(nodes)))
        THEN reactToString(Head(nodes)).text ELSE "")
       \o Join(Tail(nodes))
reactToString(content) ==
  IF IsString(content) THEN content
  ELSE IF IsArray(content) THEN Str(Join(content.items))
  ELSE Undefined

\* the rich-text values of a record
RichTexts(data) == {data.summary} \cup { w.description : w \in WorkEntries(data) }
\* the concatenation, in order, of the strings reactNodeToString gives for
\* the nodes of a sequence
RECURSIVE Concatenation(_)
Concatenation(nodes) ==
  IF nodes = <<>> THEN ""
  ELSE reactNodeToString(Head(nodes)).text \o Concatenation(Tail(nodes))

\* C28 (as stated): flattening a rich-text value yields the concatenation,
\* in document order, of the text runs it contains: a string flattens to
\* itself, and a sequence of nodes (the children of a fragment, an array)
\* flattens to the concatenation of the flattenings of its nodes.  Stated of
\* reactNodeToString, the flattening the projection applies, on the rich
\* text of the record, and of the guide's reactToString on strings and
\* arrays of strings.
C28_FlatteningConcatenatesTextRuns ==
  /\ \A v \in RichTexts(record) :
       /\ IsString(v) => (reactNodeToString(v) = v /\ reactToString(v) = v)
       /\ ~IsString(v) =>
            reactNodeToString(v) = Str(Concatenation(v.children))
  /\ \A v, w \in RichTexts(record) :
       (IsString(v) /\ IsString(w)) =>
         reactToString(Arr(<<v, w>>)) = Str(v.text \o w.text)

\* the wire list has the length of the record's list
SameLength(wireList, list) == Len(wireList.items) = Len(list.items)
\* the lists of the outcome of the projection mirror the lists of the record
\* one to one
Mirrors(wire, data) ==
  /\ IsObject(wire)
  /\ SameLength(wire.education, data.education)
  /\ \A i \in 1..Len(data.education.items) :
       wire.education.items[i] = EducationToGraphQL(data.education.items[i])
  /\ SameLength(wire.work, data.work)
  /\ \A i \in 1..Len(data.work.items) :
       wire.work.items[i] = WorkToGraphQL(data.work.items[i])
  /\ SameLength(wire.skills, data.skills)
  /\ \A i \in 1..Len(data.skills.items) :
       wire.skills.items[i] = data.skills.items[i]
  /\ SameLength(wire.projects, data.projects)
  /\ \A i \in 1..Len(data.projects.items) :
       wire.projects.items[i] = ProjectToGraphQL(data.projects.items[i])
  /\ SameLength(wire.contact.social, data.contact.social)
  /\ \A i \in 1..Len(data.contact.social.items) :
       wire.contact.social.items[i] = SocialToGraphQL(data.contact.social.items[i])

\* C29 (as stated): the projection mirrors the record's lists one to one:
\* for education, work, skills, projects and contact.social the wire list
\* has the length of the record's list and its i-th element is the
\* projection of the record's i-th element.
C29_ProjectionMirrorsLists ==
  /\ Mirrors(resumeDataToGraphQL(record), record)
  /\ \A k \in 1..Len(wires) : Mirrors(wires[k], record)

====
